---- MODULE Spec2Model ----
(***************************************************************************)
(* Model of the CrawlController Durable Object (src/src/crawlController.ts)*)
(* and of the URL helpers it uses (src/src/utils.ts).                      *)
(*                                                                         *)
(* One action per request handler.  A handler runs from its first          *)
(* statement to its final persist() without yielding, so each handler is   *)
(* one atomic step.  Time is Date.now() in milliseconds.                   *)
(***************************************************************************)
EXTENDS Integers, Sequences, FiniteSets, TLC

\* ------------------------------------------------------------------------
\* Bounds of the model
\* ------------------------------------------------------------------------

\* Date.now() when the instance is first hydrated (later than one hour
\* after the epoch, as every real clock reading is).
StartTime == 4000000
\* The clock advances in steps of TickMs.
TickMs == 1000
\* A behaviour has at most MaxEvents events: requests served and advances
\* of the clock.
MaxEvents == 6

\* A run left alone: the clock advances in steps of IdleMs, 20 minutes.
IdleMs == 1200000

\* The value of an optional field that is not set.
Undefined == -1

\* ------------------------------------------------------------------------
\* URLs.  A URL string is modelled by its parsed components; a string that
\* new URL() rejects has the empty scheme.  A path is the sequence of its
\* tokens, "/" being a token of its own.
\* ------------------------------------------------------------------------

Url(scheme, host, path, query, frag) ==
    [scheme |-> scheme, host |-> host, path |-> path, query |-> query, frag |-> frag]

NotAUrl == Url("", "", <<"not a url">>, <<>>, "")

RawA1   == Url("https", "a.test", <<"/", "p1">>, <<>>, "")
RawA1v  == Url("https", "A.TEST", <<"/", "p1", "/">>, <<>>, "x")
RawA2   == Url("https", "a.test", <<"/", "p2">>, <<>>, "")
RawB1   == Url("https", "b.test", <<"/">>, <<>>, "")
RawSub1 == Url("https", "sub.a.test", <<"/", "p1">>, <<>>, "")
RawFtp  == Url("ftp", "a.test", <<"/", "p1">>, <<>>, "")

\* Every URL string in play.
RawUrls == {RawA1, RawA1v, RawA2, RawB1, RawSub1, RawFtp, NotAUrl}

\* String.prototype.toLowerCase on the host names in play.
ToLowerCase(s) ==
    CASE s = "A.TEST" -> "a.test"
      [] s = "B.TEST" -> "b.test"
      [] OTHER -> s

\* The char codes of the tokens URLs are made of.
CharCodes(tok) ==
    CASE tok = "https"  -> <<104, 116, 116, 112, 115>>
      [] tok = "http"   -> <<104, 116, 116, 112>>
      [] tok = "ftp"    -> <<102, 116, 112>>
      [] tok = "://"    -> <<58, 47, 47>>
      [] tok = "a.test" -> <<97, 46, 116, 101, 115, 116>>
      [] tok = "b.test" -> <<98, 46, 116, 101, 115, 116>>
      [] tok = "A.TEST" -> <<65, 46, 84, 69, 83, 84>>
      [] tok = "sub.a.test" -> <<115, 117, 98, 46, 97, 46, 116, 101, 115, 116>>
      [] tok = "B.TEST" -> <<66, 46, 84, 69, 83, 84>>
      [] tok = "/"      -> <<47>>
      [] tok = "?"      -> <<63>>
      [] tok = "&"      -> <<38>>
      [] tok = "#"      -> <<35>>
      [] tok = "p1"     -> <<112, 49>>
      [] tok = "p2"     -> <<112, 50>>
      [] tok = "Aa"     -> <<65, 97>>
      [] tok = "BB"     -> <<66, 66>>
      [] tok = "x"      -> <<120>>
      [] tok = "a=1"    -> <<97, 61, 49>>
      [] tok = "a=2"    -> <<97, 61, 50>>
      [] tok = "b=2"    -> <<98, 61, 50>>
      [] tok = "not a url" -> <<110, 111, 116, 32, 97, 32, 117, 114, 108>>
      [] OTHER -> <<>>

RECURSIVE Concat(_)
Concat(toks) ==
    IF toks = <<>> THEN <<>> ELSE CharCodes(Head(toks)) \o Concat(Tail(toks))

RECURSIVE JoinQuery(_)
JoinQuery(q) ==
    IF Len(q) = 1 THEN <<q[1]>> ELSE <<q[1], "&">> \o JoinQuery(Tail(q))

\* URL.prototype.toString(): the char codes of the serialised URL.
UrlToString(u) ==
    IF u.scheme = "" THEN Concat(u.path)
    ELSE Concat(<<u.scheme, "://", u.host>> \o u.path
                \o (IF u.query = <<>> THEN <<>> ELSE <<"?">> \o JoinQuery(u.query))
                \o (IF u.frag = "" THEN <<>> ELSE <<"#", u.frag>>))

\* URLSearchParams.sort(): a stable sort of the parameters by name.
ParamBefore(p, q) == p \in {"a=1", "a=2"} /\ q = "b=2"

RECURSIVE InsertParam(_, _)
InsertParam(p, s) ==
    IF s = <<>> THEN <<p>>
    ELSE IF ParamBefore(p, Head(s)) THEN <<p>> \o s
    ELSE <<Head(s)>> \o InsertParam(p, Tail(s))

RECURSIVE SortParams(_)
SortParams(q) ==
    IF q = <<>> THEN <<>>
    ELSE InsertParam(q[Len(q)], SortParams(SubSeq(q, 1, Len(q) - 1)))

\* new URL(raw) as used by normaliseUrl: it throws on a string that has no
\* scheme, and otherwise yields the URL with its host in lower case.
CanParse(raw) == raw.scheme # ""

normaliseUrl(raw) ==
    IF ~CanParse(raw) THEN raw
    ELSE LET p == raw.path
             stripped == IF Len(p) > 1 /\ p[Len(p)] = "/"
                         THEN SubSeq(p, 1, Len(p) - 1) ELSE p
         IN  Url(raw.scheme, ToLowerCase(raw.host), stripped, SortParams(raw.query), "")

\* getDomain: the lower-case host name, or Undefined when the URL does not parse.
NoDomain == "undefined"
getDomain(u) == IF CanParse(u) THEN ToLowerCase(u.host) ELSE NoDomain

\* simpleHash: hash = (hash << 5) - hash + code, kept to 32 bits.  The
\* 32-bit value is held as the pair <<high 16 bits, low 16 bits>>.
HashStep(h, c) ==
    LET lo == 31 * h[2] + c
        hi == 31 * h[1] + (lo \div 65536)
    IN  <<hi % 65536, lo % 65536>>

RECURSIVE HashCodes(_, _)
HashCodes(h, codes) ==
    IF codes = <<>> THEN h ELSE HashCodes(HashStep(h, Head(codes)), Tail(codes))

simpleHash(u) == HashCodes(<<0, 0>>, UrlToString(u))

\* The normalised form and the hash of the URLs in play, computed once.
Normalised == [raw \in RawUrls |-> normaliseUrl(raw)]
UrlHash == [u \in {normaliseUrl(raw) : raw \in RawUrls} |-> simpleHash(u)]

\* ------------------------------------------------------------------------
\* Configuration.  An optional value is the empty sequence when it is
\* missing (null or undefined) and a one-element sequence otherwise.
\* ------------------------------------------------------------------------

DEFAULT_RATE_LIMITING ==
    [minDomainDelayMs |-> 1000, maxDomainDelayMs |-> 60000,
     errorBackoffMultiplier |-> 2, globalRateLimitPerMinute |-> 0]

DEFAULT_CRAWL_BEHAVIOR ==
    [maxDepth |-> 10, maxQueueSize |-> 100000, maxPagesPerRun |-> 0,
     defaultBatchSize |-> 10, followLinks |-> TRUE, sameDomainOnly |-> TRUE]

DEFAULT_DOMAIN_SCOPE ==
    [allowedDomains |-> {}, blockedDomains |-> {}, includePatterns |-> <<>>,
     excludePatterns |-> <<>>, includeSubdomains |-> TRUE]

\* The configurations a configure request may carry.
CfgTight ==
    [id |-> "cfg-1",
     rateLimiting |-> <<[minDomainDelayMs |-> 1000, maxDomainDelayMs |-> 3000,
                         errorBackoffMultiplier |-> 2, globalRateLimitPerMinute |-> 0]>>,
     crawlBehavior |-> <<[maxDepth |-> 1, maxQueueSize |-> 2, maxPagesPerRun |-> 0,
                          defaultBatchSize |-> 10, followLinks |-> TRUE,
                          sameDomainOnly |-> TRUE]>>,
     domainScope |-> <<>>]

CfgFast ==
    [id |-> "",
     rateLimiting |-> <<[minDomainDelayMs |-> 0, maxDomainDelayMs |-> 60000,
                         errorBackoffMultiplier |-> 2, globalRateLimitPerMinute |-> 1]>>,
     crawlBehavior |-> <<[maxDepth |-> 10, maxQueueSize |-> 100000, maxPagesPerRun |-> 1,
                          defaultBatchSize |-> 10, followLinks |-> TRUE,
                          sameDomainOnly |-> TRUE]>>,
     domainScope |-> <<>>]

PayloadConfigs == {CfgTight, CfgFast}

\* Configurations that set the domain scope.  They follow links to other
\* domains, so that the scope alone decides what discovery admits.
ScopeBehavior ==
    [maxDepth |-> 10, maxQueueSize |-> 100000, maxPagesPerRun |-> 0,
     defaultBatchSize |-> 10, followLinks |-> TRUE, sameDomainOnly |-> FALSE]

ScopeConfig(id, scope) ==
    [id |-> id, rateLimiting |-> <<>>, crawlBehavior |-> <<ScopeBehavior>>,
     domainScope |-> <<scope>>]

\* a.test is blocked and allowed at once.
CfgBlocked ==
    ScopeConfig("cfg-2",
       [allowedDomains |-> {"a.test"}, blockedDomains |-> {"a.test"},
        includePatterns |-> <<>>, excludePatterns |-> <<>>, includeSubdomains |-> TRUE])

\* a.test is allowed, its subdomains are not.
CfgExact ==
    ScopeConfig("cfg-3",
       [allowedDomains |-> {"a.test"}, blockedDomains |-> {},
        includePatterns |-> <<>>, excludePatterns |-> <<>>, includeSubdomains |-> FALSE])

\* a.test is allowed with its subdomains, b.test is blocked.
CfgSubdomains ==
    ScopeConfig("cfg-4",
       [allowedDomains |-> {"a.test"}, blockedDomains |-> {"b.test"},
        includePatterns |-> <<>>, excludePatterns |-> <<>>, includeSubdomains |-> TRUE])

\* URLs with p1 are excluded; a URL must match p2 or the pattern "(".
CfgPatterns ==
    ScopeConfig("cfg-5",
       [allowedDomains |-> {}, blockedDomains |-> {},
        includePatterns |-> <<"(", "p2">>, excludePatterns |-> <<"p1">>,
        includeSubdomains |-> TRUE])

ScopeConfigs == {CfgTight, CfgBlocked, CfgExact, CfgSubdomains, CfgPatterns}

\* ------------------------------------------------------------------------
\* State
\* ------------------------------------------------------------------------

VARIABLES
    pendingQueue,   \* the Frontier: sequence of QueuedUrl records
    visitedUrls,    \* the Visited Index: set of URL hashes
    domainStates,   \* function from the tracked domains to DomainState records
    runState,       \* the RunState record
    recentErrors,   \* sequence of CrawlError records
    storage,        \* the durable snapshot: <<>> or <<five-slot record>>
    now,            \* Date.now()
    response,       \* the last request served and what it answered
    dispatched,     \* history: the work items returned since the last reset
    reported,       \* history: the returned URLs reported since the last reset
    streak,         \* history: consecutive failure reports per tracked domain
    events,         \* history: the number of requests served and clock advances
    touchedAt,      \* history: Date.now() of the last worker or operator request
    instance,       \* the instance's initialized flag and the requests inside fetch()
    facade,         \* the API worker's report-result request and the blob store
    probe,          \* the argument and the results of a pure function
    putThrows       \* does storage.put() throw in the request being served?

vars == <<pendingQueue, visitedUrls, domainStates, runState, recentErrors,
          storage, now, response, dispatched, reported, streak, events,
          touchedAt, instance, facade, probe, putThrows>>

\* What the requests to a hydrated coordinator leave alone.
aux == <<touchedAt, instance, facade, probe, putThrows>>

memory == <<pendingQueue, visitedUrls, domainStates, runState, recentErrors>>

\* Finite maps (Map objects) and their updates.
EmptyMap == [k \in {} |-> 0]
MapSet(m, k, v) == [x \in (DOMAIN m) \cup {k} |-> IF x = k THEN v ELSE m[x]]
MapDelete(m, ks) == [x \in (DOMAIN m) \ ks |-> m[x]]

createDefaultRunState(t) ==
    [id |-> "default", status |-> "pending", config |-> <<>>,
     stats |-> [urlsQueued |-> 0, urlsFetched |-> 0, urlsFailed |-> 0,
                bytesDownloaded |-> 0, lastActivityAt |-> t],
     error |-> "",
     startedAt |-> Undefined, pausedAt |-> Undefined, completedAt |-> Undefined]

NewDomainState(t) ==
    [lastFetchTime |-> t, requestCount |-> 0, errorCount |-> 0,
     successCount |-> 0, backoffUntil |-> 0, bytesDownloaded |-> 0]

\* The configuration getters, with their per-section defaults.
rateLimiting(rs) ==
    IF rs.config # <<>> /\ rs.config[1].rateLimiting # <<>>
    THEN rs.config[1].rateLimiting[1] ELSE DEFAULT_RATE_LIMITING

crawlBehavior(rs) ==
    IF rs.config # <<>> /\ rs.config[1].crawlBehavior # <<>>
    THEN rs.config[1].crawlBehavior[1] ELSE DEFAULT_CRAWL_BEHAVIOR

domainScope(rs) ==
    IF rs.config # <<>> /\ rs.config[1].domainScope # <<>>
    THEN rs.config[1].domainScope[1] ELSE DEFAULT_DOMAIN_SCOPE

Last50(s) == IF Len(s) > 50 THEN SubSeq(s, Len(s) - 49, Len(s)) ELSE s

\* A persist() that leaves the Visited Index out.
SnapshotWithoutVisited(q, v, d, rs, errs) ==
    <<[pendingQueue |-> q, visitedUrls |-> {}, domainStates |-> d,
       runState |-> rs, recentErrors |-> Last50(errs)]>>

\* persist(): the five slots as they are written.
Snapshot(q, v, d, rs, errs) ==
    <<[pendingQueue |-> q, visitedUrls |-> v, domainStates |-> d,
       runState |-> rs, recentErrors |-> Last50(errs)]>>

\* The answer to the last request: whether it reported success, whether it
\* has a urls key and the batch under it, the code of an error answer, the
\* message of a success answer, the status a lifecycle answer reports
\* ("" when the answer has none) and the number of URLs a seed rejected.
Reply(ok) ==
    [success |-> ok, hasUrls |-> FALSE, urls |-> <<>>, error |-> "", message |-> "",
     status |-> "", rejected |-> 0]

\* The answer to a request-work.
WorkReply(batch, message) ==
    [Reply(TRUE) EXCEPT !.hasUrls = TRUE, !.urls = batch, !.message = message]

\* The answer of fetch() when the handler has thrown.
InternalError == [Reply(FALSE) EXCEPT !.error = "INTERNAL_ERROR"]

\* await this.persist(); return Response.json(reply).  A put that throws
\* leaves the snapshot as it was, and fetch() answers for the handler.
Persist(snapshot, reply) ==
    /\ storage' = IF putThrows' THEN storage ELSE snapshot
    /\ response' = IF putThrows' THEN InternalError ELSE reply

InitCoordinator ==
    /\ pendingQueue = <<>>
    /\ visitedUrls = {}
    /\ domainStates = EmptyMap
    /\ runState = createDefaultRunState(StartTime)
    /\ recentErrors = <<>>
    /\ storage = <<>>
    /\ now = StartTime
    /\ response = Reply(FALSE)
    /\ dispatched = <<>>
    /\ reported = {}
    /\ streak = EmptyMap
    /\ events = 0
    /\ touchedAt = StartTime

\* The name under which the API worker addresses the coordinator of a run
\* that the request does not name.
RunName == "default"

\* The two requests that may be inside fetch() at a time.
Requests == {1, 2}

\* An instance as its constructor leaves it: initialized is false, no
\* request is inside fetch(), the state was never loaded and no handler
\* has run.
Fresh ==
    [initialized |-> FALSE, pc |-> [r \in Requests |-> "out"], loads |-> 0,
     acted |-> FALSE]

\* An instance whose initialize() has run.
Hydrated == [Fresh EXCEPT !.initialized = TRUE, !.loads = 1]

\* runState = null, held as a run state without a status.
NoRunState == [createDefaultRunState(0) EXCEPT !.status = "null"]

\* The API worker between two report-result requests, with an empty bucket:
\* no payload is waiting to be sent to the coordinator, and the last
\* request did not end in INTERNAL_ERROR.
FacadeIdle == [pc |-> "idle", payload |-> <<>>, bucket |-> {}, failed |-> FALSE]

\* No pure function has been applied.
NoProbe == [u |-> NotAUrl, v |-> NotAUrl, once |-> <<>>, twice |-> <<>>]

Init ==
    /\ InitCoordinator
    /\ instance = Hydrated
    /\ facade = FacadeIdle
    /\ probe = NoProbe
    /\ putThrows = FALSE

\* Time passes between two requests.
Tick ==
    /\ events < MaxEvents
    /\ events' = events + 1
    /\ now' = now + TickMs
    /\ UNCHANGED <<memory, storage, response, dispatched, reported, streak, aux>>

\* ------------------------------------------------------------------------
\* Domain scope
\* ------------------------------------------------------------------------

\* domain.endsWith('.' + d) on the host names in play.
EndsWithDot(domain, d) ==
    <<domain, d>> \in {<<"a.test", "test">>, <<"b.test", "test">>,
                       <<"sub.a.test", "a.test">>, <<"sub.a.test", "test">>}

\* new RegExp(pattern): the pattern "(" does not compile.  A pattern that
\* compiles is a literal token, and matches a string that contains it.
RegExpCompiles(pattern) == pattern # "("
RegExpTest(pattern, toks) == \E i \in 1..Len(toks) : toks[i] = pattern

AnyPatternMatches(patterns, toks) ==
    \E i \in 1..Len(patterns) :
        RegExpCompiles(patterns[i]) /\ RegExpTest(patterns[i], toks)

\* A scope in which a listed domain is allowed before the blocked list is read.
isAllowedDomainListedFirst(rs, domain) ==
    LET scope == domainScope(rs)
    IN  \/ domain \in scope.allowedDomains
        \/ /\ ~(\E d \in scope.blockedDomains : domain = d \/ EndsWithDot(domain, d))
           /\ scope.allowedDomains = {}

isAllowedDomain(rs, domain) ==
    LET scope == domainScope(rs)
    IN  /\ ~(\E d \in scope.blockedDomains : domain = d \/ EndsWithDot(domain, d))
        /\ \/ scope.allowedDomains = {}
           \/ \E d \in scope.allowedDomains :
                 \/ domain = d
                 \/ scope.includeSubdomains /\ EndsWithDot(domain, d)
        /\ ~AnyPatternMatches(scope.excludePatterns, <<domain>>)

isAllowedUrl(rs, url) ==
    LET scope == domainScope(rs)
        toks == <<url.scheme, "://", url.host>> \o url.path \o url.query
    IN  /\ ~AnyPatternMatches(scope.excludePatterns, toks)
        /\ \/ scope.includePatterns = <<>>
           \/ AnyPatternMatches(scope.includePatterns, toks)

\* ------------------------------------------------------------------------
\* configure
\* ------------------------------------------------------------------------

handleConfigure(config) ==
    LET rs == [runState EXCEPT !.config = <<config>>,
                               !.id = IF config.id # "" THEN config.id ELSE @]
    IN  /\ runState' = rs
        /\ Persist(Snapshot(pendingQueue, visitedUrls, domainStates, rs, recentErrors),
                   Reply(TRUE))
        /\ UNCHANGED <<pendingQueue, visitedUrls, domainStates, recentErrors,
                       now, dispatched, reported, streak>>

\* ------------------------------------------------------------------------
\* seed
\* ------------------------------------------------------------------------

QueuedUrl(url, domain, depth, addedAt, priority) ==
    [url |-> url, domain |-> domain, depth |-> depth, addedAt |-> addedAt,
     priority |-> priority, retryCount |-> 0]

\* An admission that does not look into the Frontier.
IsQueuedNever(queue, url) == FALSE

\* Check if already in queue.
IsQueued(queue, url) == \E i \in 1..Len(queue) : queue[i].url = url

\* A counter that counts the requests that admit, not the admissions.
CountAdmittedOnce(queued, added) == IF added > 0 THEN queued + 1 ELSE queued

\* this.runState.stats.urlsQueued += added
CountAdmitted(queued, added) == queued + added

\* The loop of handleSeed over payload.urls.  acc.stop is the break.
RECURSIVE SeedLoop(_, _, _, _)
SeedLoop(urls, depth, priority, acc) ==
    IF urls = <<>> \/ acc.stop THEN acc
    ELSE LET rawUrl == Head(urls)
             url == Normalised[rawUrl]
             domain == getDomain(url)
             rest == Tail(urls)
         IN  IF domain = NoDomain
             THEN SeedLoop(rest, depth, priority, [acc EXCEPT !.rejected = @ + 1])
             ELSE IF ~isAllowedDomain(runState, domain)
             THEN SeedLoop(rest, depth, priority, [acc EXCEPT !.rejected = @ + 1])
             ELSE IF UrlHash[url] \in visitedUrls
             THEN SeedLoop(rest, depth, priority, acc)
             ELSE IF Len(acc.queue) >= crawlBehavior(runState).maxQueueSize
             THEN [acc EXCEPT !.stop = TRUE]
             ELSE IF IsQueued(acc.queue, url)
             THEN SeedLoop(rest, depth, priority, acc)
             ELSE LET item == QueuedUrl(url, domain, depth, now, priority)
                  IN  SeedLoop(rest, depth, priority,
                        [acc EXCEPT
                           !.queue = Append(@, item),
                           !.domains = IF domain \in DOMAIN @ THEN @
                                       ELSE MapSet(@, domain, NewDomainState(0)),
                           !.added = @ + 1])

\* A tracked domain's streak of failures starts at 0 with its DomainState.
TrackStreak(domains) ==
    [d \in DOMAIN domains |-> IF d \in DOMAIN streak THEN streak[d] ELSE 0]

handleSeed(urls, depth, priority) ==
    LET r == SeedLoop(urls, depth, priority,
                      [queue |-> pendingQueue, domains |-> domainStates, added |-> 0,
                       rejected |-> 0, stop |-> FALSE])
        rs == [runState EXCEPT
                 !.stats.urlsQueued = CountAdmitted(@, r.added),
                 !.stats.lastActivityAt = now]
    IN  /\ pendingQueue' = r.queue
        /\ domainStates' = r.domains
        /\ runState' = rs
        /\ Persist(Snapshot(r.queue, visitedUrls, r.domains, rs, recentErrors),
                   [Reply(TRUE) EXCEPT !.rejected = r.rejected])
        /\ streak' = TrackStreak(r.domains)
        /\ UNCHANGED <<visitedUrls, recentErrors, now, dispatched, reported>>

\* ------------------------------------------------------------------------
\* Run lifecycle
\* ------------------------------------------------------------------------

\* A handler that answers an error without touching anything.
Reject(code) ==
    /\ response' = [Reply(FALSE) EXCEPT !.error = code]
    /\ UNCHANGED <<memory, storage, now, dispatched, reported, streak>>

\* A lifecycle handler that replaces the run state and persists.
Transition(rs) ==
    /\ runState' = rs
    /\ Persist(Snapshot(pendingQueue, visitedUrls, domainStates, rs, recentErrors),
               [Reply(TRUE) EXCEPT !.status = rs.status])
    /\ UNCHANGED <<pendingQueue, visitedUrls, domainStates, recentErrors,
                   now, dispatched, reported, streak>>

\* A start that does not look for a run under way.
handleStartUnchecked ==
    IF runState.status \in {"completed", "cancelled"}
    THEN Reject("RUN_COMPLETED")
    ELSE Transition([runState EXCEPT !.status = "running",
                                              !.startedAt = now,
                                              !.stats.lastActivityAt = now])

handleStart ==
    IF runState.status = "running" THEN Reject("RUN_ALREADY_RUNNING")
    ELSE IF runState.status \in {"completed", "cancelled"}
    THEN Reject("RUN_COMPLETED")
    ELSE Transition([runState EXCEPT !.status = "running",
                                              !.startedAt = now,
                                              !.stats.lastActivityAt = now])

\* A pause that does not look at the status.
handlePauseUnchecked ==
    Transition([runState EXCEPT !.status = "paused", !.pausedAt = now])

handlePause ==
    IF runState.status # "running" THEN Reject("RUN_NOT_RUNNING")
    ELSE Transition([runState EXCEPT !.status = "paused", !.pausedAt = now])

\* A resume that starts the run anew.
handleResumeRestarts ==
    IF runState.status # "paused" THEN Reject("INVALID_RUN_STATE")
    ELSE Transition([runState EXCEPT !.status = "running",
                                               !.startedAt = now,
                                               !.pausedAt = Undefined,
                                               !.stats.lastActivityAt = now])

handleResume ==
    IF runState.status # "paused" THEN Reject("INVALID_RUN_STATE")
    ELSE Transition([runState EXCEPT !.status = "running",
                                               !.pausedAt = Undefined,
                                               !.stats.lastActivityAt = now])

handleCancel ==
    Transition([runState EXCEPT !.status = "cancelled", !.completedAt = now])

\* A reset that keeps the Visited Index.
handleResetKeepsVisited ==
    LET rs == createDefaultRunState(now)
    IN  /\ pendingQueue' = <<>>
        /\ visitedUrls' = visitedUrls
        /\ domainStates' = EmptyMap
        /\ recentErrors' = <<>>
        /\ runState' = rs
        /\ Persist(Snapshot(<<>>, visitedUrls, EmptyMap, rs, <<>>),
                   [Reply(TRUE) EXCEPT !.message = "Run state reset"])
        /\ dispatched' = <<>>
        /\ reported' = {}
        /\ streak' = EmptyMap
        /\ UNCHANGED now

handleReset ==
    LET rs == createDefaultRunState(now)
    IN  /\ pendingQueue' = <<>>
        /\ visitedUrls' = {}
        /\ domainStates' = EmptyMap
        /\ recentErrors' = <<>>
        /\ runState' = rs
        /\ Persist(Snapshot(<<>>, {}, EmptyMap, rs, <<>>),
                   [Reply(TRUE) EXCEPT !.message = "Run state reset"])
        /\ dispatched' = <<>>
        /\ reported' = {}
        /\ streak' = EmptyMap
        /\ UNCHANGED now

\* ------------------------------------------------------------------------
\* request-work
\* ------------------------------------------------------------------------

\* The hard limit on the size of a batch.
HardBatchLimit == 100

Min(a, b) == IF a < b THEN a ELSE b

\* The comparator of pendingQueue.sort(): a goes before b.
SortsBefore(a, b) ==
    IF b.priority # a.priority THEN b.priority < a.priority
    ELSE a.addedAt < b.addedAt

RECURSIVE InsertSorted(_, _)
InsertSorted(x, s) ==
    IF s = <<>> THEN <<x>>
    ELSE IF SortsBefore(x, Head(s)) THEN <<x>> \o s
    ELSE <<Head(s)>> \o InsertSorted(x, Tail(s))

\* A scheduler that takes the Frontier in the order of admission.
SortQueueAsQueued(q) == q

\* Array.prototype.sort is stable.
RECURSIVE SortQueue(_)
SortQueue(q) ==
    IF q = <<>> THEN <<>>
    ELSE InsertSorted(q[Len(q)], SortQueue(SubSeq(q, 1, Len(q) - 1)))

WorkItem(item) ==
    [url |-> item.url, depth |-> item.depth, priority |-> item.priority,
     retryCount |-> item.retryCount]

\* A scheduler that does not pace a domain.
DomainReadyUnpaced(state, minDelay) == ~(state.backoffUntil > now)

\* May the scheduler hand out an item of a domain in this DomainState?
DomainReady(state, minDelay) ==
    /\ ~(state.backoffUntil > now)
    /\ ~(now - state.lastFetchTime < minDelay)

\* A scheduler that hands out any number of items of a domain at once.
AlreadyInBatchNever(domainsInBatch, domain) == FALSE

\* Only one URL per domain per batch.
AlreadyInBatch(domainsInBatch, domain) == domain \in domainsInBatch

\* A scheduler that forgets what it has handed out.
MarkVisitedForgotten(visited, url) == visited

\* Mark as visited (optimistically).
MarkVisited(visited, url) == visited \cup {UrlHash[url]}

\* A request-work that also serves a paused run.
IsActiveOrPaused(rs) == rs.status \in {"running", "paused"}

\* Check if run is active.
IsActive(rs) == rs.status = "running"

\* A page limit that is only noticed once it has been exceeded.
PageLimitExceeded(rs) ==
    /\ crawlBehavior(rs).maxPagesPerRun > 0
    /\ rs.stats.urlsFetched > crawlBehavior(rs).maxPagesPerRun

\* Check max pages limit.
PageLimitReached(rs) ==
    /\ crawlBehavior(rs).maxPagesPerRun > 0
    /\ rs.stats.urlsFetched >= crawlBehavior(rs).maxPagesPerRun

\* A run that ends as soon as a batch comes out empty.
QueueDrainedOrPaced(remaining, batch) == batch = <<>>

\* Check if queue is empty and we're done.
QueueDrained(remaining, batch) == remaining = <<>> /\ batch = <<>>

\* A scheduler that forgets the items it does not hand out.
LeftBehindDropped(remaining, item) == remaining

\* remainingQueue.push(item)
LeftBehind(remaining, item) == Append(remaining, item)

\* payload.batchSize || ...: a number that is absent or 0 is falsy.
Truthy(n) == n # Undefined /\ n # 0

\* The loop of handleRequestWork over the sorted queue.
RECURSIVE TakeLoop(_, _, _, _)
TakeLoop(items, batchSize, minDelay, acc) ==
    IF items = <<>> THEN acc
    ELSE LET item == Head(items)
             rest == Tail(items)
             hadState == item.domain \in DOMAIN acc.domains
             before == IF hadState THEN acc.domains[item.domain] ELSE NewDomainState(0)
             skip == [acc EXCEPT !.remaining = LeftBehind(@, item)]
         IN  IF Len(acc.batch) >= batchSize
             THEN TakeLoop(rest, batchSize, minDelay, skip)
             ELSE IF hadState /\ ~DomainReady(before, minDelay)
             THEN TakeLoop(rest, batchSize, minDelay, skip)
             ELSE IF AlreadyInBatch(acc.domainsInBatch, item.domain)
             THEN TakeLoop(rest, batchSize, minDelay, skip)
             ELSE LET state == IF hadState THEN before ELSE NewDomainState(now)
                  IN  TakeLoop(rest, batchSize, minDelay,
                        [acc EXCEPT
                           !.batch = Append(@, WorkItem(item)),
                           !.domainsInBatch = @ \cup {item.domain},
                           !.visited = MarkVisited(@, item.url),
                           !.domains = MapSet(@, item.domain,
                                         [state EXCEPT !.lastFetchTime = now,
                                                       !.requestCount = @ + 1])])

handleRequestWork(payloadBatchSize) ==
    IF ~IsActive(runState)
    THEN /\ response' = WorkReply(<<>>, "Run is not active")
         /\ UNCHANGED <<memory, storage, now, dispatched, reported, streak>>
    ELSE IF PageLimitReached(runState)
    THEN LET rs == [runState EXCEPT !.status = "completed", !.completedAt = now]
         IN  /\ runState' = rs
             /\ Persist(Snapshot(pendingQueue, visitedUrls, domainStates, rs, recentErrors),
                        WorkReply(<<>>, "Max pages reached"))
             /\ UNCHANGED <<pendingQueue, visitedUrls, domainStates, recentErrors,
                            now, dispatched, reported, streak>>
    ELSE LET batchSize == Min(IF Truthy(payloadBatchSize) THEN payloadBatchSize
                              ELSE crawlBehavior(runState).defaultBatchSize,
                              HardBatchLimit)
             r == TakeLoop(SortQueue(pendingQueue), batchSize,
                           rateLimiting(runState).minDomainDelayMs,
                           [batch |-> <<>>, remaining |-> <<>>, domainsInBatch |-> {},
                            visited |-> visitedUrls, domains |-> domainStates])
             done == QueueDrained(r.remaining, r.batch)
             rs == [runState EXCEPT
                      !.stats.lastActivityAt = now,
                      !.status = IF done THEN "completed" ELSE @,
                      !.completedAt = IF done THEN now ELSE @]
         IN  /\ pendingQueue' = r.remaining
             /\ visitedUrls' = r.visited
             /\ domainStates' = r.domains
             /\ runState' = rs
             /\ Persist(Snapshot(r.remaining, r.visited, r.domains, rs, recentErrors),
                        WorkReply(r.batch, ""))
             /\ dispatched' = IF putThrows' THEN dispatched ELSE dispatched \o r.batch
             /\ reported' = reported
             /\ streak' = TrackStreak(r.domains)
             /\ UNCHANGED <<recentErrors, now>>

\* ------------------------------------------------------------------------
\* report-result
\* ------------------------------------------------------------------------

\* Math.pow on the non-negative integers.
RECURSIVE Pow(_, _)
Pow(b, e) == IF e = 0 THEN 1 ELSE b * Pow(b, e - 1)

\* A backoff computed from the error count before the failure at hand.
BackoffTimeStale(rl, errorCount) ==
    Min(rl.minDomainDelayMs * Pow(rl.errorBackoffMultiplier, errorCount - 1),
        rl.maxDomainDelayMs)

\* The backoff after errorCount errors in a row.
BackoffTime(rl, errorCount) ==
    Min(rl.minDomainDelayMs * Pow(rl.errorBackoffMultiplier, errorCount),
        rl.maxDomainDelayMs)

\* A report that counts as failed only when it carries an error.
IsFailureOnErrorOnly(status, error) == error # ""

\* if (error || (status && status >= 400))
IsFailure(status, error) == error # "" \/ (status # 0 /\ status >= 400)

CrawlError(url, domain, status, error) ==
    [url |-> url, domain |-> domain, statusCode |-> status,
     message |-> IF error # "" THEN error ELSE "HTTP", timestamp |-> now]

\* Has request-work returned the URL since the last reset?
WasDispatched(url) == \E i \in 1..Len(dispatched) : dispatched[i].url = url

\* The depth of a page as it was handed out, Undefined if it never was.
DispatchedDepth(url) ==
    IF WasDispatched(url)
    THEN dispatched[CHOOSE i \in 1..Len(dispatched) : dispatched[i].url = url].depth
    ELSE Undefined

\* The depth handleReportResult takes for the reported page.
ParentDepth(url) == 0

\* The loop of handleReportResult over payload.discoveredUrls.
RECURSIVE DiscoverLoop(_, _, _, _)
DiscoverLoop(urls, url, domain, acc) ==
    IF urls = <<>> THEN acc
    ELSE IF Len(acc.queue) >= crawlBehavior(runState).maxQueueSize THEN acc
    ELSE LET newUrl == Normalised[Head(urls)]
             newDomain == getDomain(newUrl)
             rest == Tail(urls)
             newDepth == ParentDepth(url) + 1
         IN  IF newDomain = NoDomain
             THEN DiscoverLoop(rest, url, domain, acc)
             ELSE IF /\ crawlBehavior(runState).sameDomainOnly
                     /\ domain # NoDomain
                     /\ newDomain # domain
             THEN DiscoverLoop(rest, url, domain, acc)
             ELSE IF ~isAllowedDomain(runState, newDomain)
             THEN DiscoverLoop(rest, url, domain, acc)
             ELSE IF ~isAllowedUrl(runState, newUrl)
             THEN DiscoverLoop(rest, url, domain, acc)
             ELSE IF UrlHash[newUrl] \in visitedUrls
             THEN DiscoverLoop(rest, url, domain, acc)
             ELSE IF IsQueued(acc.queue, newUrl)
             THEN DiscoverLoop(rest, url, domain, acc)
             ELSE IF newDepth > crawlBehavior(runState).maxDepth
             THEN DiscoverLoop(rest, url, domain, acc)
             ELSE LET item == QueuedUrl(newUrl, newDomain, newDepth, now, -newDepth)
                  IN  DiscoverLoop(rest, url, domain,
                        [acc EXCEPT
                           !.queue = Append(@, item),
                           !.domains = IF newDomain \in DOMAIN @ THEN @
                                       ELSE MapSet(@, newDomain, NewDomainState(0)),
                           !.added = @ + 1])

\* The first part of handleReportResult: the DomainState of the reported
\* page, the run counters and the error ring.
ReportOutcome(url, domain, status, error, contentSize) ==
    IF domain = NoDomain \/ domain \notin DOMAIN domainStates
    THEN [domains |-> domainStates, rs |-> runState, errors |-> recentErrors]
    ELSE LET state == domainStates[domain]
         IN  IF IsFailure(status, error)
             THEN LET errorCount == state.errorCount + 1
                      failed == [state EXCEPT
                                   !.errorCount = errorCount,
                                   !.backoffUntil =
                                       now + BackoffTime(rateLimiting(runState), errorCount)]
                      errs == Last50(Append(recentErrors,
                                            CrawlError(url, domain, status, error)))
                  IN  [domains |-> MapSet(domainStates, domain, failed),
                       rs |-> [runState EXCEPT !.stats.urlsFailed = @ + 1],
                       errors |-> errs]
             ELSE LET bytes == IF Truthy(contentSize) THEN contentSize ELSE 0
                      fetched == [state EXCEPT !.errorCount = 0,
                                               !.backoffUntil = 0,
                                               !.successCount = @ + 1,
                                               !.bytesDownloaded = @ + bytes]
                  IN  [domains |-> MapSet(domainStates, domain, fetched),
                       rs |-> [runState EXCEPT
                                 !.stats.urlsFetched = @ + 1,
                                 !.stats.bytesDownloaded = @ + bytes],
                       errors |-> recentErrors]

handleReportResult(url, status, error, discoveredUrls, contentSize) ==
    LET domain == getDomain(url)
        hadState == domain # NoDomain /\ domain \in DOMAIN domainStates
        o == ReportOutcome(url, domain, status, error, contentSize)
        follow == discoveredUrls # <<>> /\ crawlBehavior(runState).followLinks
        r == IF follow
             THEN DiscoverLoop(discoveredUrls, url, domain,
                               [queue |-> pendingQueue, domains |-> o.domains,
                                added |-> 0])
             ELSE [queue |-> pendingQueue, domains |-> o.domains, added |-> 0]
        rs == [o.rs EXCEPT !.stats.urlsQueued = CountAdmitted(@, r.added),
                           !.stats.lastActivityAt = now]
    IN  /\ pendingQueue' = r.queue
        /\ domainStates' = r.domains
        /\ runState' = rs
        /\ recentErrors' = o.errors
        /\ Persist(Snapshot(r.queue, visitedUrls, r.domains, rs, o.errors),
                   Reply(TRUE))
        /\ streak' = [d \in DOMAIN r.domains |->
                        IF d = domain /\ hadState
                        THEN (IF IsFailure(status, error) THEN streak[d] + 1 ELSE 0)
                        ELSE IF d \in DOMAIN streak THEN streak[d] ELSE 0]
        /\ reported' = IF WasDispatched(url) THEN reported \cup {url} ELSE reported
        /\ UNCHANGED <<visitedUrls, now, dispatched>>

\* ------------------------------------------------------------------------
\* on-cron
\* ------------------------------------------------------------------------

\* Domains without recent activity are pruned after an hour, and a run
\* without activity is reported as stalled after half an hour.
PruneAgeMs == 3600000
StallAgeMs == 1800000

\* A maintenance tick that prunes by age alone.
PrunableByAge(state) == state.lastFetchTime < now - PruneAgeMs

\* state.lastFetchTime < pruneThreshold && state.requestCount === 0
Prunable(state) ==
    /\ state.lastFetchTime < now - PruneAgeMs
    /\ state.requestCount = 0

handleCron ==
    LET cleared == [d \in DOMAIN domainStates |->
                      IF domainStates[d].backoffUntil > 0
                         /\ domainStates[d].backoffUntil < now
                      THEN [domainStates[d] EXCEPT !.backoffUntil = 0]
                      ELSE domainStates[d]]
        pruned == {d \in DOMAIN cleared : Prunable(cleared[d])}
        domains == MapDelete(cleared, pruned)
        stalled == /\ runState.status = "running"
                   /\ runState.stats.lastActivityAt < now - StallAgeMs
                   /\ Len(pendingQueue) > 0
        rs == [runState EXCEPT
                 !.error = IF stalled THEN "Run stalled - no activity for 30 minutes"
                           ELSE @,
                 !.stats.lastActivityAt = now]
    IN  /\ domainStates' = domains
        /\ runState' = rs
        /\ Persist(Snapshot(pendingQueue, visitedUrls, domains, rs, recentErrors),
                   Reply(TRUE))
        /\ streak' = MapDelete(streak, pruned)
        /\ UNCHANGED <<pendingQueue, visitedUrls, recentErrors, now, dispatched, reported>>

\* ------------------------------------------------------------------------
\* Eviction of the instance and initialize() of the next one
\* ------------------------------------------------------------------------

initialize ==
    IF storage = <<>>
    THEN /\ pendingQueue' = <<>>
         /\ visitedUrls' = {}
         /\ domainStates' = EmptyMap
         /\ recentErrors' = <<>>
         /\ runState' = createDefaultRunState(now)
    ELSE /\ pendingQueue' = storage[1].pendingQueue
         /\ visitedUrls' = storage[1].visitedUrls
         /\ domainStates' = storage[1].domainStates
         /\ recentErrors' = storage[1].recentErrors
         /\ runState' = storage[1].runState

\* ------------------------------------------------------------------------
\* The requests
\* ------------------------------------------------------------------------

\* The payloads of the seed requests: depth and priority default to 0.
SeedPayloads ==
    {[urls |-> <<RawA1, RawA2, RawB1>>, depth |-> 0, priority |-> 0],
     [urls |-> <<NotAUrl, RawA1v>>, depth |-> 2, priority |-> 0]}

\* The payloads of the request-work requests: batchSize is Undefined when
\* absent.
WorkPayloads == {[batchSize |-> Undefined], [batchSize |-> 0], [batchSize |-> 1]}

\* The payloads of the report-result requests: status is 0, error is "" and
\* contentSize is Undefined when absent.
ReportPayloads ==
    {[url |-> RawA1, status |-> 200, error |-> "", discoveredUrls |-> <<RawB1, RawA2>>,
      contentSize |-> 2048],
     [url |-> RawA1, status |-> 500, error |-> "", discoveredUrls |-> <<>>,
      contentSize |-> 512]}

\* One more event.
Counted ==
    /\ events < MaxEvents
    /\ events' = events + 1

\* One more request is served by a hydrated coordinator.
Serve ==
    /\ Counted
    /\ UNCHANGED aux

Configure ==
    /\ Serve
    /\ \E c \in PayloadConfigs : handleConfigure(c)

Seed ==
    /\ Serve
    /\ \E p \in SeedPayloads : handleSeed(p.urls, p.depth, p.priority)

Start ==
    /\ Serve
    /\ handleStart

Pause ==
    /\ Serve
    /\ handlePause

Resume ==
    /\ Serve
    /\ handleResume

Cancel ==
    /\ Serve
    /\ handleCancel

Reset ==
    /\ Serve
    /\ handleReset

RequestWork ==
    /\ Serve
    /\ \E p \in WorkPayloads : handleRequestWork(p.batchSize)

ReportResult ==
    /\ Serve
    /\ \E p \in ReportPayloads :
          handleReportResult(p.url, p.status, p.error, p.discoveredUrls,
                             p.contentSize)

Cron ==
    /\ Serve
    /\ handleCron

\* The instance is evicted, and the next one hydrates itself from storage.
Restart ==
    /\ initialize
    /\ UNCHANGED <<storage, now, response, dispatched, reported, streak, events, aux>>

Next ==
    \/ Tick
    \/ Configure
    \/ Seed
    \/ Start
    \/ Pause
    \/ Resume
    \/ Cancel
    \/ Reset
    \/ RequestWork
    \/ ReportResult
    \/ Cron
    \/ Restart

Spec == Init /\ [][Next]_vars

\* ------------------------------------------------------------------------
\* Admission under a domain scope: the requests that offer URLs to the
\* Frontier, with payloads that reach every branch of isAllowedDomain and
\* isAllowedUrl.
\* ------------------------------------------------------------------------

ScopeSeedPayloads ==
    {[urls |-> <<RawA1, RawSub1, RawB1>>, depth |-> 0, priority |-> 0],
     [urls |-> <<RawFtp, RawA2>>, depth |-> 0, priority |-> 0]}

ScopeReportPayloads ==
    {[url |-> RawA1, status |-> 200, error |-> "",
      discoveredUrls |-> <<RawSub1, RawB1, RawA2, RawFtp>>,
      contentSize |-> Undefined]}

ConfigureScope ==
    /\ Serve
    /\ \E c \in ScopeConfigs : handleConfigure(c)

SeedScope ==
    /\ Serve
    /\ \E p \in ScopeSeedPayloads : handleSeed(p.urls, p.depth, p.priority)

ReportDiscovered ==
    /\ Serve
    /\ \E p \in ScopeReportPayloads :
          handleReportResult(p.url, p.status, p.error, p.discoveredUrls,
                             p.contentSize)

AdmissionNext ==
    \/ ConfigureScope
    \/ SeedScope
    \/ ReportDiscovered
    \/ Reset

AdmissionSpec == Init /\ [][AdmissionNext]_vars

\* ------------------------------------------------------------------------
\* A run left alone for a long time: the requests of workers and operators
\* are recorded in touchedAt, the maintenance ticks are not.
\* ------------------------------------------------------------------------

\* One more request of an operator or a worker is served.
Touch ==
    /\ Counted
    /\ touchedAt' = now
    /\ UNCHANGED <<instance, facade, probe, putThrows>>

OperatorSeeds ==
    /\ Touch
    /\ \E p \in SeedPayloads : handleSeed(p.urls, p.depth, p.priority)

OperatorStarts ==
    /\ Touch
    /\ handleStart

WorkerRequestsWork ==
    /\ Touch
    /\ \E p \in WorkPayloads : handleRequestWork(p.batchSize)

\* Nothing happens for IdleMs.
Idle ==
    /\ Counted
    /\ now' = now + IdleMs
    /\ UNCHANGED <<memory, storage, response, dispatched, reported, streak, aux>>

StallNext ==
    \/ OperatorSeeds
    \/ OperatorStarts
    \/ WorkerRequestsWork
    \/ Cron
    \/ Idle

StallSpec == Init /\ [][StallNext]_vars

\* ------------------------------------------------------------------------
\* Snapshot writes that fail.  storage.put() throws, and fetch() catches
\* what the handler throws; or the put returns and the write is lost
\* afterwards, and the runtime answers an error and discards the instance.
\* ------------------------------------------------------------------------

\* One more request is served, whose put may throw.
ServePut ==
    /\ Counted
    /\ putThrows' \in BOOLEAN
    /\ UNCHANGED <<touchedAt, instance, facade, probe>>

SeedPut ==
    /\ ServePut
    /\ \E p \in SeedPayloads : handleSeed(p.urls, p.depth, p.priority)

StartPut ==
    /\ ServePut
    /\ handleStart

WorkPut ==
    /\ ServePut
    /\ \E p \in WorkPayloads : handleRequestWork(p.batchSize)

ReportPut ==
    /\ ServePut
    /\ \E p \in ReportPayloads :
          handleReportResult(p.url, p.status, p.error, p.discoveredUrls,
                             p.contentSize)

\* The write of a request is lost after its put has returned: the request
\* is answered with an error, and the next instance hydrates from storage.
WriteLost ==
    /\ Counted
    /\ storage # <<>>
    /\ initialize
    /\ response' = InternalError
    /\ putThrows' = FALSE
    /\ UNCHANGED <<storage, now, dispatched, reported, streak,
                   touchedAt, instance, facade, probe>>

PersistNext ==
    \/ SeedPut
    \/ StartPut
    \/ WorkPut
    \/ ReportPut
    \/ WriteLost

PersistSpec == Init /\ [][PersistNext]_vars

\* ------------------------------------------------------------------------
\* A run with workers that never give up: they keep asking for work and
\* report every URL they were handed, once.  The run is configured without
\* a page limit and without a delay between the fetches of a domain, so
\* that no URL ever waits for the clock; the operator seeds before the
\* start and does not pause, cancel or reset.
\* ------------------------------------------------------------------------

CfgLive == [CfgFast EXCEPT !.id = "cfg-6", !.crawlBehavior[1].maxPagesPerRun = 0]

\* The links a worker finds on a page.
LinksOn(url) == IF url = Normalised[RawA1] THEN <<RawB1, RawA2>> ELSE <<>>

\* A request that the event budget does not count.
Uncounted == UNCHANGED <<events, aux>>

ConfigureLive ==
    /\ Uncounted
    /\ runState.config = <<>>
    /\ runState.status = "pending"
    /\ handleConfigure(CfgLive)

SeedLive ==
    /\ Uncounted
    /\ runState.config # <<>>
    /\ runState.status = "pending"
    /\ \E p \in SeedPayloads : handleSeed(p.urls, p.depth, p.priority)

StartLive ==
    /\ Uncounted
    /\ runState.config # <<>>
    /\ runState.status = "pending"
    /\ handleStart

WorkLive ==
    /\ Uncounted
    /\ \E b \in {1, 2} : handleRequestWork(b)

ReportLive ==
    /\ Uncounted
    /\ \E i \in 1..Len(dispatched) :
          /\ dispatched[i].url \notin reported
          /\ \E status \in {200, 500} :
                handleReportResult(dispatched[i].url, status, "",
                                   LinksOn(dispatched[i].url), Undefined)

LiveNext ==
    \/ ConfigureLive
    \/ SeedLive
    \/ StartLive
    \/ WorkLive
    \/ ReportLive

\* The run is started, the workers keep asking and keep reporting.
LiveSpec ==
    /\ Init
    /\ [][LiveNext]_vars
    /\ WF_vars(StartLive)
    /\ WF_vars(WorkLive)
    /\ WF_vars(ReportLive)

\* ------------------------------------------------------------------------
\* Maintenance ticks more than an hour after the last fetch of a domain
\* ------------------------------------------------------------------------

\* Nothing happens for four times IdleMs, which is more than an hour.
Doze ==
    /\ Counted
    /\ now' = now + 4 * IdleMs
    /\ UNCHANGED <<memory, storage, response, dispatched, reported, streak, aux>>

MaintenanceNext ==
    \/ Seed
    \/ Start
    \/ RequestWork
    \/ ReportResult
    \/ Doze
    \/ Cron

MaintenanceSpec == Init /\ [][MaintenanceNext]_vars

\* ------------------------------------------------------------------------
\* report-result in the API worker: the content goes to the bucket, then
\* the payload without the content goes to the coordinator.  The two awaits
\* are two steps; seed, start and request-work run between them.
\* ------------------------------------------------------------------------

\* The payloads of /api/report-result: with and without content.
ApiReportPayloads ==
    {[url |-> RawA1, status |-> 200, error |-> "", discoveredUrls |-> <<>>,
      content |-> <<"html">>, contentSize |-> Undefined],
     [url |-> RawA1, status |-> 200, error |-> "", discoveredUrls |-> <<>>,
      content |-> <<>>, contentSize |-> Undefined]}

\* hashContent: the SHA-256 of the content, held as the content it is of.
hashContent(content) == <<"sha256", content>>

\* buildR2Key: runId/domain/hash.html, or runId/unknown/hash.html.
buildR2Key(runId, url, contentHash) ==
    <<runId, IF CanParse(url) THEN url.host ELSE "unknown", contentHash>>

\* payload.content.length
ContentLength(content) == IF content = "html" THEN 4 ELSE 0

\* A worker that goes on to the coordinator although the put has thrown.
AfterPutSwallowed(p, ok) ==
    [facade EXCEPT !.pc = "forward", !.payload = <<p>>, !.failed = ~ok]

\* The worker after env.CRAWL_BUCKET.put has returned (ok) or thrown: a
\* throw leaves the try block, and the request ends in INTERNAL_ERROR.
AfterPut(p, ok) ==
    IF ok
    THEN [facade EXCEPT
            !.pc = "forward", !.failed = FALSE,
            !.payload = <<[p EXCEPT !.contentSize = ContentLength(p.content[1])]>>,
            !.bucket = @ \cup {buildR2Key(RunName, p.url, hashContent(p.content[1]))}]
    ELSE [facade EXCEPT !.pc = "idle", !.payload = <<>>, !.failed = TRUE]

\* The worker receives a report-result and stores the content, if any.
ApiReceivesReport ==
    /\ Counted
    /\ facade.pc = "idle"
    /\ \E p \in ApiReportPayloads :
          IF p.content # <<>>
          THEN \E ok \in BOOLEAN : facade' = AfterPut(p, ok)
          ELSE facade' = [facade EXCEPT !.pc = "forward", !.payload = <<p>>,
                                        !.failed = FALSE]
    /\ UNCHANGED <<memory, storage, now, response, dispatched, reported, streak,
                   touchedAt, instance, probe, putThrows>>

\* The worker sends the payload to the coordinator's report-result.
ApiForwardsReport ==
    /\ Counted
    /\ facade.pc = "forward"
    /\ UNCHANGED putThrows
    /\ LET p == facade.payload[1]
       IN  handleReportResult(p.url, p.status, p.error, p.discoveredUrls,
                             p.contentSize)
    /\ facade' = [facade EXCEPT !.pc = "idle", !.payload = <<>>]
    /\ UNCHANGED <<touchedAt, instance, probe>>

FacadeNext ==
    \/ Seed
    \/ Start
    \/ RequestWork
    \/ ApiReceivesReport
    \/ ApiForwardsReport

FacadeSpec == Init /\ [][FacadeNext]_vars

\* ------------------------------------------------------------------------
\* Requests to an instance that is not hydrated yet.  A request is out of
\* fetch(), or waits in initialize() for the five storage reads
\* ("loading"), or has initialize() behind it and waits for its body
\* ("in"); its handler then runs to the end.
\* ------------------------------------------------------------------------

InstanceInit ==
    /\ pendingQueue = <<>>
    /\ visitedUrls = {}
    /\ domainStates = EmptyMap
    /\ runState = NoRunState
    /\ recentErrors = <<>>
    /\ storage = <<>>
    /\ now = StartTime
    /\ response = Reply(FALSE)
    /\ dispatched = <<>>
    /\ reported = {}
    /\ streak = EmptyMap
    /\ events = 0
    /\ touchedAt = StartTime
    /\ instance = Fresh
    /\ facade = FacadeIdle
    /\ probe = NoProbe
    /\ putThrows = FALSE

\* A gate that lets requests in while storage reads are pending.
InputGateAlwaysOpen == TRUE

\* The Durable Object runtime delivers no request to the instance while a
\* storage operation of the instance is pending.
InputGateOpen == \A r \in Requests : instance.pc[r] # "loading"

\* fetch() is called and calls initialize(), which returns at once when
\* initialized is set and otherwise starts the five reads.
Enters ==
    /\ InputGateOpen
    /\ \E r \in Requests :
          /\ instance.pc[r] = "out"
          /\ instance' = [instance EXCEPT
                             !.pc[r] = IF instance.initialized THEN "in" ELSE "loading"]
    /\ UNCHANGED <<memory, storage, now, response, dispatched, reported, streak,
                   events, touchedAt, facade, probe, putThrows>>

\* The reads of a request have returned: initialize() assigns the five
\* fields and sets initialized.
Loads ==
    /\ \E r \in Requests :
          /\ instance.pc[r] = "loading"
          /\ instance' = [instance EXCEPT !.pc[r] = "in", !.initialized = TRUE,
                                          !.loads = @ + 1]
    /\ initialize
    /\ UNCHANGED <<storage, now, response, dispatched, reported, streak,
                   events, touchedAt, facade, probe, putThrows>>

\* The handler of a request that is in runs and the request leaves.
Leaves ==
    /\ Counted
    /\ \E r \in Requests :
          /\ instance.pc[r] = "in"
          /\ instance' = [instance EXCEPT !.pc[r] = "out", !.acted = TRUE]
    /\ UNCHANGED <<touchedAt, facade, probe, putThrows>>

SeedHandled ==
    /\ Leaves
    /\ \E p \in SeedPayloads : handleSeed(p.urls, p.depth, p.priority)

StartHandled ==
    /\ Leaves
    /\ handleStart

WorkHandled ==
    /\ Leaves
    /\ \E p \in WorkPayloads : handleRequestWork(p.batchSize)

\* The instance is evicted while no request is inside; the next one starts
\* from its constructor.
Evicted ==
    /\ Counted
    /\ instance.initialized
    /\ \A r \in Requests : instance.pc[r] = "out"
    /\ instance' = Fresh
    /\ pendingQueue' = <<>>
    /\ visitedUrls' = {}
    /\ domainStates' = EmptyMap
    /\ runState' = NoRunState
    /\ recentErrors' = <<>>
    /\ UNCHANGED <<storage, now, response, dispatched, reported, streak,
                   touchedAt, facade, probe, putThrows>>

InstanceNext ==
    \/ Enters
    \/ Loads
    \/ SeedHandled
    \/ StartHandled
    \/ WorkHandled
    \/ Evicted
    \/ Tick

InstanceSpec == InstanceInit /\ [][InstanceNext]_vars

\* ------------------------------------------------------------------------
\* normaliseUrl as a function: two URL strings are drawn, and normaliseUrl
\* is applied to both, and once more to the result of the first.
\* ------------------------------------------------------------------------

ProbePaths == {<<"/">>, <<"/", "p1">>, <<"/", "p1", "/">>, <<"/", "p1", "/", "/">>}

ProbeQueries ==
    {<<>>, <<"a=1", "b=2">>, <<"b=2", "a=1">>, <<"a=1", "a=2">>, <<"a=2", "a=1">>}

ProbeUrls ==
    {Url("https", h, p, q, f) :
        h \in {"a.test", "A.TEST"}, p \in ProbePaths, q \in ProbeQueries, f \in {"", "x"}}
    \cup {NotAUrl}

NormaliseInit ==
    /\ InitCoordinator
    /\ instance = Hydrated
    /\ facade = FacadeIdle
    /\ putThrows = FALSE
    /\ \E u \in ProbeUrls, v \in ProbeUrls :
          probe = [u |-> u, v |-> v, once |-> <<>>, twice |-> <<>>]

Normalise ==
    /\ probe.once = <<>>
    /\ probe' = [probe EXCEPT !.once = <<normaliseUrl(probe.u), normaliseUrl(probe.v)>>,
                              !.twice = <<normaliseUrl(normaliseUrl(probe.u))>>]
    /\ UNCHANGED <<memory, storage, now, response, dispatched, reported, streak,
                   events, touchedAt, instance, facade, putThrows>>

NormaliseNext == Normalise

NormaliseSpec == NormaliseInit /\ [][NormaliseNext]_vars

\* ------------------------------------------------------------------------
\* Seeds of different priority: what the scheduler's ranking is about
\* ------------------------------------------------------------------------

\* The payloads of the seed requests that carry a priority.
RankedSeedPayloads ==
    {[urls |-> <<RawA1, RawB1>>, depth |-> 0, priority |-> 0],
     [urls |-> <<RawA2>>, depth |-> 0, priority |-> 5]}

SeedRanked ==
    /\ Serve
    /\ \E p \in RankedSeedPayloads : handleSeed(p.urls, p.depth, p.priority)

DispatchNext ==
    \/ Tick
    \/ SeedRanked
    \/ Start
    \/ RequestWork
    \/ ReportResult

DispatchSpec == Init /\ [][DispatchNext]_vars

\* ------------------------------------------------------------------------
\* Properties
\* ------------------------------------------------------------------------

Terminal == {"completed", "cancelled", "failed"}

\* The work items a step hands out.
HandedOut == SubSeq(dispatched', Len(dispatched) + 1, Len(dispatched'))
HandsOut == Len(dispatched') > Len(dispatched)

\* C1: between two resets no normalised URL is returned by request-work
\* more than once, neither in two responses nor twice in one.
NoDoubleDispatch ==
    \A i, j \in 1..Len(dispatched) :
        i # j => dispatched[i].url # dispatched[j].url

\* Every URL in play has been handed out, over more than one response.
NoDoubleDispatchWitness ==
    /\ Len(dispatched)
          = Cardinality({Normalised[RawA1], Normalised[RawA1v], Normalised[RawA2],
                         Normalised[RawB1]})
    /\ Len(response.urls) = 1

\* C2: urlsFetched + urlsFailed never exceeds urlsQueued.
Conservation ==
    runState.stats.urlsFetched + runState.stats.urlsFailed <= runState.stats.urlsQueued

\* C3: once the run is completed, cancelled or failed, no request other
\* than reset changes the status, and cancel leaves completedAt unchanged.
TerminalIsAbsorbing ==
    [][(runState.status \in Terminal /\ ~Reset)
         => /\ runState'.status = runState.status
            /\ Cancel => runState'.completedAt = runState.completedAt]_vars

\* C4: start moves the run to running only from pending, leaves status,
\* startedAt and pausedAt unchanged otherwise, and only resume leads from
\* paused to running.
StartOnlyFromPending ==
    [][/\ (Start /\ runState.status # "pending")
          => /\ runState'.status = runState.status
             /\ runState'.startedAt = runState.startedAt
             /\ runState'.pausedAt = runState.pausedAt
       /\ (runState.status = "paused" /\ runState'.status = "running") => Resume]_vars

\* The last fetch of an item's domain before the item is handed out: that
\* of an item earlier in the same batch, or that of the DomainState.
FetchedBefore(batch, i) ==
    LET d == getDomain(batch[i].url)
    IN  IF \E j \in 1..(i - 1) : getDomain(batch[j].url) = d THEN now
        ELSE domainStates[d].lastFetchTime

\* C5: when a URL is handed out, its domain's backoffUntil is <= now and
\* the domain's previous fetch lies at least minDomainDelayMs back.
Politeness ==
    [][HandsOut =>
         \A i \in 1..Len(HandedOut) :
            LET d == getDomain(HandedOut[i].url)
            IN  d \in DOMAIN domainStates =>
                  /\ domainStates[d].backoffUntil <= now
                  /\ now - FetchedBefore(HandedOut, i)
                        >= rateLimiting(runState).minDomainDelayMs]_vars

\* A domain has been fetched, and later fetched again.
PolitenessWitness ==
    /\ response.urls # <<>>
    /\ \E d \in DOMAIN domainStates : domainStates[d].requestCount >= 2

Rehydrated ==
    IF storage = <<>>
    THEN [pendingQueue |-> <<>>, visitedUrls |-> {}, domainStates |-> EmptyMap,
          runState |-> createDefaultRunState(now), recentErrors |-> <<>>]
    ELSE storage[1]

\* The slots hold what the instance has in memory.
SameAsMemory(slots) ==
    /\ slots.pendingQueue = pendingQueue
    /\ slots.visitedUrls = visitedUrls
    /\ slots.domainStates = domainStates
    /\ slots.runState = runState
    /\ slots.recentErrors = recentErrors

FrontierBound == Len(pendingQueue) <= crawlBehavior(runState).maxQueueSize

\* C9: no two URLs of one request-work response have the same domain.
BatchDomainsDistinct ==
    \A i, j \in 1..Len(response.urls) :
        i # j => getDomain(response.urls[i].url) # getDomain(response.urls[j].url)

\* A response with more than one URL.
BatchDomainsDistinctWitness == Len(response.urls) >= 2

\* C10: a URL discovered on a page handed out at depth d is admitted with
\* depth d+1 and priority -(d+1), and only if d+1 <= maxDepth.
DiscoveredDepth ==
    [][\A p \in ReportPayloads :
          (/\ handleReportResult(p.url, p.status, p.error, p.discoveredUrls,
                             p.contentSize)
           /\ DispatchedDepth(p.url) # Undefined)
          => \A i \in (Len(pendingQueue) + 1)..Len(pendingQueue') :
                LET d == DispatchedDepth(p.url)
                IN  /\ pendingQueue'[i].depth = d + 1
                    /\ pendingQueue'[i].priority = -(d + 1)
                    /\ d + 1 <= crawlBehavior(runState).maxDepth]_vars

\* A step that serves a request-work (told first by the shape of its answer).
ServesWork == response'.hasUrls /\ RequestWork

\* C11: no URL enters the Frontier, by seed or by discovery, with a depth
\* greater than the maxDepth in force when it is admitted.
AdmittedWithinMaxDepth ==
    [][\A i \in 1..Len(pendingQueue') :
          (\A j \in 1..Len(pendingQueue) : pendingQueue[j].url # pendingQueue'[i].url)
             => pendingQueue'[i].depth <= crawlBehavior(runState).maxDepth]_vars

\* C12: a request-work on a run that is not running returns an empty batch
\* and leaves the Frontier, the Visited Index, the Domain States and the
\* run state unchanged; URLs are handed out only while the run is running.
IdleRunGivesNoWork ==
    [][/\ (runState.status # "running" /\ ServesWork)
          => /\ response'.hasUrls /\ response'.urls = <<>>
             /\ UNCHANGED <<pendingQueue, visitedUrls, domainStates, runState>>
       /\ HandsOut => runState.status = "running"]_vars

\* A paused run with URLs waiting has been asked for work.
IdleRunGivesNoWorkWitness ==
    /\ response.message = "Run is not active"
    /\ runState.status = "paused"
    /\ pendingQueue # <<>>

\* C13: a request-work on a running run below the page limit completes the
\* run, setting completedAt, exactly when the batch and the remaining
\* Frontier are both empty; otherwise the run stays running.
AutoComplete ==
    [][(/\ runState.status = "running"
        /\ ~(/\ crawlBehavior(runState).maxPagesPerRun > 0
             /\ runState.stats.urlsFetched >= crawlBehavior(runState).maxPagesPerRun)
        /\ ServesWork)
         => IF response'.urls = <<>> /\ pendingQueue' = <<>>
            THEN runState'.status = "completed" /\ runState'.completedAt = now
            ELSE /\ runState'.status = "running"
                 /\ runState'.completedAt = runState.completedAt]_vars

\* A running run answered an empty batch while URLs wait in the Frontier.
AutoCompleteWitness ==
    /\ response.hasUrls /\ response.urls = <<>> /\ response.message = ""
    /\ runState.status = "running"
    /\ pendingQueue # <<>>

\* C14: when maxPagesPerRun > 0 and urlsFetched >= maxPagesPerRun, a
\* request-work on a running run hands out nothing, leaves the Frontier and
\* the Visited Index unchanged and completes the run.
PageLimitCompletes ==
    [][(/\ runState.status = "running"
        /\ crawlBehavior(runState).maxPagesPerRun > 0
        /\ runState.stats.urlsFetched >= crawlBehavior(runState).maxPagesPerRun
        /\ ServesWork)
         => /\ response'.urls = <<>> /\ ~HandsOut
            /\ UNCHANGED <<pendingQueue, visitedUrls>>
            /\ runState'.status = "completed"]_vars

\* The page limit has ended a run that has URLs waiting.
PageLimitCompletesWitness ==
    /\ response.message = "Max pages reached"
    /\ runState.status = "completed"
    /\ pendingQueue # <<>>

\* C15: pause on a running run sets status paused and pausedAt; in any
\* other status it is rejected with RUN_NOT_RUNNING and leaves the run
\* state unchanged.
PauseOnlyWhenRunning ==
    [][Pause =>
         IF runState.status = "running"
         THEN /\ response'.success
              /\ runState'.status = "paused" /\ runState'.pausedAt = now
         ELSE /\ ~response'.success /\ response'.error = "RUN_NOT_RUNNING"
              /\ runState' = runState]_vars

\* A pause has paused the run, and a second pause has been rejected.
PauseOnlyWhenRunningWitness ==
    /\ response.error = "RUN_NOT_RUNNING"
    /\ runState.status = "paused"

\* C16: resume on a paused run sets status running, clears pausedAt and
\* leaves startedAt, the Frontier and the Visited Index unchanged; in any
\* other status it is rejected with INVALID_RUN_STATE and leaves the run
\* state unchanged.
ResumeOnlyWhenPaused ==
    [][Resume =>
         IF runState.status = "paused"
         THEN /\ response'.success
              /\ runState'.status = "running" /\ runState'.pausedAt = Undefined
              /\ runState'.startedAt = runState.startedAt
              /\ UNCHANGED <<pendingQueue, visitedUrls>>
         ELSE /\ ~response'.success /\ response'.error = "INVALID_RUN_STATE"
              /\ runState' = runState]_vars

\* A run started earlier has just been resumed, with URLs waiting.
ResumeOnlyWhenPausedWitness ==
    /\ response.success /\ response.status = "running"
    /\ runState.status = "running"
    /\ runState.pausedAt = Undefined
    /\ runState.startedAt # Undefined /\ runState.startedAt < now
    /\ runState.stats.lastActivityAt = now
    /\ pendingQueue # <<>>

StartOnRunningIsNoOp ==
    [][(Start /\ runState.status = "running")
         => response'.success /\ runState' = runState]_vars

\* C18 as amended: start on a running run is rejected with
\* RUN_ALREADY_RUNNING and leaves the run state unchanged.
StartOnRunningRejected ==
    [][(Start /\ runState.status = "running")
         => /\ ~response'.success /\ response'.error = "RUN_ALREADY_RUNNING"
            /\ runState' = runState]_vars

\* A start has been rejected on a running run.
StartOnRunningRejectedWitness ==
    /\ response.error = "RUN_ALREADY_RUNNING"
    /\ runState.status = "running"

\* C19: no two entries of the Frontier have the same normalised URL.
FrontierUnique ==
    \A i, j \in 1..Len(pendingQueue) :
        i # j => pendingQueue[i].url # pendingQueue[j].url

\* A URL seeded at depth 2 in a variant spelling has been seeded again, with
\* two more URLs, in its normalised spelling.
FrontierUniqueWitness ==
    /\ \E i \in 1..Len(pendingQueue) :
          pendingQueue[i].url = Normalised[RawA1] /\ pendingQueue[i].depth = 2
    /\ \E i \in 1..Len(pendingQueue) : pendingQueue[i].url = Normalised[RawA2]

\* C20: a report-result changes the run counters and the domain's counters
\* and backoff only for a URL that request-work has returned and that has
\* not been reported yet.
ReportOnlyAfterDispatch ==
    [][\A p \in ReportPayloads :
          (/\ handleReportResult(p.url, p.status, p.error, p.discoveredUrls,
                             p.contentSize)
           /\ ~(WasDispatched(p.url) /\ p.url \notin reported))
          => /\ runState'.stats.urlsFetched = runState.stats.urlsFetched
             /\ runState'.stats.urlsFailed = runState.stats.urlsFailed
             /\ getDomain(p.url) \in DOMAIN domainStates
                   => domainStates'[getDomain(p.url)] = domainStates[getDomain(p.url)]]_vars

\* C21: with globalRateLimitPerMinute = N > 0 at most N URLs are returned by
\* request-work in any window of 60 seconds; the URLs of one answer are
\* returned at one instant, so one answer has at most N of them.
GlobalRateLimit ==
    [][(rateLimiting(runState).globalRateLimitPerMinute > 0 /\ ServesWork)
          => Len(response'.urls) <= rateLimiting(runState).globalRateLimitPerMinute]_vars

\* A step that admits the i-th entry of the Frontier it leaves.
Admits(i) == \A j \in 1..Len(pendingQueue) : pendingQueue[j].url # pendingQueue'[i].url

\* C23: a configure call leaves every configuration section that it does
\* not specify at the value in force before the call (the prior value, or
\* the default when the section was never set).
ConfigureKeepsUnspecified ==
    [][ConfigureScope =>
          /\ runState'.config[1].rateLimiting = <<>>
                => rateLimiting(runState') = rateLimiting(runState)
          /\ runState'.config[1].crawlBehavior = <<>>
                => crawlBehavior(runState') = crawlBehavior(runState)
          /\ runState'.config[1].domainScope = <<>>
                => domainScope(runState') = domainScope(runState)]_vars

\* C24: every URL in the Frontier, whether it came by seed or by discovery,
\* has the scheme http or https.
OnlyHttpAdmitted ==
    \A i \in 1..Len(pendingQueue) : pendingQueue[i].url.scheme \in {"http", "https"}

\* C25: a URL admitted to the Frontier, by seed or by discovery, matches no
\* exclude pattern of the configuration in force and, when include patterns
\* are set, matches one of them.
PatternsRespected ==
    [][\A i \in 1..Len(pendingQueue') :
          Admits(i) => isAllowedUrl(runState, pendingQueue'[i].url)]_vars

\* The run_id that handleReportResult binds in the page-metadata record.
PageRunId(rs) == IF rs.id # "" THEN rs.id ELSE "default"

\* C27: the page-metadata record written by a report-result carries the id
\* under which the run's coordinator is addressed, and configure does not
\* change the run's id.
RecordsCarryRunId ==
    [][/\ ReportResult => PageRunId(runState') = RunName
       /\ Configure => runState'.id = runState.id]_vars

\* C30: a URL admitted to the Frontier has a domain that neither equals a
\* blocked domain nor is a subdomain of one, also when the domain is in
\* allowedDomains; and when allowedDomains is not empty the domain is listed
\* or, with includeSubdomains set, is a subdomain of a listed domain.
ScopeRespected ==
    [][\A i \in 1..Len(pendingQueue') :
          Admits(i) =>
             LET d == pendingQueue'[i].domain
                 scope == domainScope(runState)
             IN  /\ \A b \in scope.blockedDomains : d # b /\ ~EndsWithDot(d, b)
                 /\ scope.allowedDomains # {}
                       => \E a \in scope.allowedDomains :
                             \/ d = a
                             \/ scope.includeSubdomains /\ EndsWithDot(d, a)]_vars

\* Under a scope that blocks and allows a.test, a seed of a.test, sub.a.test
\* and b.test was rejected whole, after sub.a.test had been admitted under
\* a scope that allows a.test with its subdomains.
ScopeRespectedWitness ==
    /\ runState.config = <<CfgBlocked>>
    /\ response.rejected = 3
    /\ \E i \in 1..Len(pendingQueue) : pendingQueue[i].domain = "sub.a.test"

\* C26: when a run is running with a non-empty Frontier and no worker or
\* operator request has touched it for more than 30 minutes, a maintenance
\* tick records the stalled warning in runState.error and leaves the status
\* running, however many maintenance ticks ran in between.
StallReported ==
    [][(/\ runState.status = "running"
        /\ Len(pendingQueue) > 0
        /\ touchedAt < now - StallAgeMs
        /\ Cron)
          => /\ runState'.error = "Run stalled - no activity for 30 minutes"
             /\ runState'.status = "running"]_vars

\* The parameters of q are those of r in some order.
SameParams(q, r) ==
    /\ Len(q) = Len(r)
    /\ \A i \in 1..Len(q) :
          Cardinality({j \in 1..Len(q) : q[j] = q[i]})
             = Cardinality({j \in 1..Len(r) : r[j] = q[i]})

\* p is the path q, or q with a slash after it, q not being the root.
SlashAdded(p, q) == p = q \/ (Len(q) > 1 /\ p = Append(q, "/"))

\* u and v differ at most in the fragment, in a trailing slash on a path
\* that is not the root, in the case of the host and in the order of the
\* query parameters.
SameButForm(u, v) ==
    /\ u.scheme # "" /\ u.scheme = v.scheme
    /\ ToLowerCase(u.host) = ToLowerCase(v.host)
    /\ SlashAdded(u.path, v.path) \/ SlashAdded(v.path, u.path)
    /\ SameParams(u.query, v.query)

\* C29: normaliseUrl is idempotent, and two URLs that differ only in the
\* fragment, a trailing slash on a non-root path, the case of the host or
\* the order of the query parameters normalise to the same string.
NormaliseIdempotent ==
    probe.once # <<>> =>
       /\ UrlToString(probe.twice[1]) = UrlToString(probe.once[1])
       /\ SameButForm(probe.u, probe.v)
             => UrlToString(probe.once[1]) = UrlToString(probe.once[2])

\* C28: in the API worker's report-result the content is in the bucket
\* before the coordinator is called, and when the write to the bucket fails
\* the coordinator is not called: the counters, the domain states and the
\* Frontier stay as they are and nothing is left to send.
BlobBeforeCoordinator ==
    [][/\ (facade.pc = "forward" /\ facade.payload[1].content # <<>>)
          => buildR2Key(RunName, facade.payload[1].url,
                        hashContent(facade.payload[1].content[1])) \in facade.bucket
       /\ (facade'.failed /\ ApiReceivesReport)
          => /\ UNCHANGED <<memory, storage>>
             /\ facade'.pc = "idle"
             /\ facade'.payload = <<>>]_vars

\* The page was handed out, the write of its content has failed, and the
\* run has counted no report.
BlobBeforeCoordinatorWitness ==
    /\ facade.failed
    /\ WasDispatched(Normalised[RawA1])
    /\ runState.stats.urlsFetched = 0
    /\ runState.stats.urlsFailed = 0

\* C22: however two requests to an instance that is not hydrated yet
\* interleave, a handler runs only after hydration has completed, and the
\* state is loaded from storage at most once in the life of an instance,
\* never after a handler of that instance has run.
HydratedOnce ==
    [][/\ (\E r \in Requests : instance.pc[r] = "in" /\ instance'.pc[r] = "out")
          => instance.initialized /\ instance.loads = 1
       /\ instance'.loads > instance.loads
          => instance.loads = 0 /\ ~instance.acted]_vars

\* Both requests are inside fetch() of an instance that was hydrated once
\* and has run a seed since.
HydratedOnceWitness ==
    /\ \A r \in Requests : instance.pc[r] = "in"
    /\ instance.acted
    /\ instance.loads = 1
    /\ storage # <<>>
    /\ Len(pendingQueue) > 0

\* ------------------------------------------------------------------------
\* C31: every request-work response contains at most min(b, 100) URLs,
\* where b is the batchSize of the request when one is given, 0 included,
\* and defaultBatchSize otherwise.
\* ------------------------------------------------------------------------

EffectiveBatch(p) ==
    Min(IF p.batchSize # Undefined THEN p.batchSize
        ELSE crawlBehavior(runState).defaultBatchSize, HardBatchLimit)

BatchSizeRespected ==
    [][\A p \in WorkPayloads :
          (IsActive(runState) /\ response'.hasUrls /\ Serve
             /\ handleRequestWork(p.batchSize))
          => Len(response'.urls) <= EffectiveBatch(p)]_vars

\* ------------------------------------------------------------------------
\* C32: the batch of a request-work is one greedy pass over the Frontier
\* ranked by higher priority first and older addedAt first.  An item is left
\* behind only if the batch was full when its turn came, its domain is in
\* backoff or was fetched less than minDomainDelayMs ago, or an item of its
\* domain ranked no worse is in the batch; so no item is handed out while a
\* strictly better-ranked eligible item of another domain is left behind.
\* ------------------------------------------------------------------------

\* The sizes a batch can be limited to.
BatchSizes ==
    {Min(IF Truthy(p.batchSize) THEN p.batchSize
         ELSE crawlBehavior(runState).defaultBatchSize, HardBatchLimit) :
       p \in WorkPayloads}

\* Is the Frontier entry handed out by the step?
Taken(x) == \E i \in 1..Len(response'.urls) : response'.urls[i].url = x.url

\* The domain of the Frontier entry is in backoff or was fetched too recently.
Held(x) ==
    /\ x.domain \in DOMAIN domainStates
    /\ \/ domainStates[x.domain].backoffUntil > now
       \/ now - domainStates[x.domain].lastFetchTime
             < rateLimiting(runState).minDomainDelayMs

\* The entries handed out by the step that are ranked no worse than x.
TakenAhead(x) ==
    {j \in 1..Len(pendingQueue) :
        /\ Taken(pendingQueue[j])
        /\ ~SortsBefore(x, pendingQueue[j])}

GreedyByRank ==
    [][(response'.hasUrls /\ response'.message = "" /\ RequestWork) =>
         \A i \in 1..Len(pendingQueue) :
            LET x == pendingQueue[i]
            IN  ~Taken(x) =>
                  /\ \/ Held(x)
                     \/ \E j \in TakenAhead(x) : pendingQueue[j].domain = x.domain
                     \/ /\ Cardinality(TakenAhead(x)) = Len(response'.urls)
                        /\ Len(response'.urls) \in BatchSizes
                  /\ \A j \in 1..Len(pendingQueue) :
                        LET y == pendingQueue[j]
                        IN  (Taken(y) /\ SortsBefore(x, y) /\ x.domain # y.domain)
                            => \/ Held(x)
                               \/ \E k \in TakenAhead(x) :
                                     pendingQueue[k].domain = x.domain]_vars

\* A request-work has handed out an item of priority 0 and has left an item
\* of priority 5 behind, whose domain had been fetched just before.
GreedyByRankWitness ==
    /\ response.hasUrls
    /\ \E i \in 1..Len(response.urls) : \E j \in 1..Len(pendingQueue) :
          /\ response.urls[i].priority < pendingQueue[j].priority
          /\ getDomain(response.urls[i].url) # pendingQueue[j].domain
    /\ dispatched # response.urls

\* ------------------------------------------------------------------------
\* C33: a URL leaves the Frontier only in the answer to a request-work or
\* by reset.  After a request-work the Frontier is the previous Frontier
\* minus the batch, its entries unchanged in every field; no other request
\* removes an entry.
\* ------------------------------------------------------------------------

Entries(queue) == {queue[i] : i \in 1..Len(queue)}

\* Every entry of the Frontier is still there after the step, as it was.
AllStay == Entries(pendingQueue) \subseteq Entries(pendingQueue')

\* The Frontier after the step is the Frontier before it minus the batch.
MinusBatch ==
    /\ Entries(pendingQueue') = {x \in Entries(pendingQueue) : ~Taken(x)}
    /\ Len(pendingQueue') = Len(pendingQueue) - Len(response'.urls)
    /\ \A i \in 1..Len(response'.urls) :
          \E x \in Entries(pendingQueue) : WorkItem(x) = response'.urls[i]

LeavesOnlyByDispatch ==
    [][\/ /\ AllStay
          /\ (response'.hasUrls /\ now' = now /\ events' # events) => MinusBatch
       \/ response'.hasUrls /\ MinusBatch /\ RequestWork
       \/ Reset]_vars

\* A request-work has handed out part of the Frontier and has left the rest.
LeavesOnlyByDispatchWitness ==
    /\ response.hasUrls
    /\ response.urls # <<>>
    /\ pendingQueue # <<>>
    /\ runState.status = "running"
    /\ Len(dispatched) > Len(response.urls)

\* ------------------------------------------------------------------------
\* C34: a maintenance tick sets backoffUntil to 0 exactly for the domains
\* whose backoff has elapsed, removes exactly the Domain States last fetched
\* more than an hour ago that have requestCount 0, and leaves the status of
\* the run, the Frontier, the Visited Index, the counters of the run and
\* every other field of the remaining Domain States as they were.
\* ------------------------------------------------------------------------

\* The DomainState of d as a maintenance tick leaves it, if it leaves it.
AfterTick(d) ==
    IF domainStates[d].backoffUntil > 0 /\ domainStates[d].backoffUntil < now
    THEN [domainStates[d] EXCEPT !.backoffUntil = 0]
    ELSE domainStates[d]

TickFrame ==
    [][(now' = now /\ response'.success /\ ~response'.hasUrls /\ Cron) =>
         /\ DOMAIN domainStates' =
               {d \in DOMAIN domainStates :
                   ~(/\ domainStates[d].lastFetchTime < now - PruneAgeMs
                     /\ domainStates[d].requestCount = 0)}
         /\ \A d \in DOMAIN domainStates' : domainStates'[d] = AfterTick(d)
         /\ \A d \in DOMAIN domainStates :
               domainStates[d].requestCount >= 1 => d \in DOMAIN domainStates'
         /\ runState'.status = runState.status
         /\ pendingQueue' = pendingQueue
         /\ visitedUrls' = visitedUrls
         /\ runState'.stats.urlsQueued = runState.stats.urlsQueued
         /\ runState'.stats.urlsFetched = runState.stats.urlsFetched
         /\ runState'.stats.urlsFailed = runState.stats.urlsFailed]_vars

\* After a maintenance tick: a domain that was fetched more than an hour ago
\* and has failed is still tracked, out of backoff, and a domain of the
\* Frontier that never was fetched is not tracked any more.
TickFrameWitness ==
    /\ response = Reply(TRUE)
    /\ \E d \in DOMAIN domainStates :
          /\ domainStates[d].requestCount >= 1
          /\ domainStates[d].lastFetchTime < now - PruneAgeMs
          /\ domainStates[d].errorCount >= 1
          /\ domainStates[d].backoffUntil = 0
    /\ \E i \in 1..Len(pendingQueue) :
          pendingQueue[i].domain \notin DOMAIN domainStates

\* ------------------------------------------------------------------------
\* C35: a report-result for a URL that was handed out since the last reset
\* adds 1 to exactly one of urlsFetched and urlsFailed: to urlsFailed iff
\* error is non-empty or status >= 400.  Otherwise bytesDownloaded grows by
\* contentSize, and errorCount and backoffUntil of the domain become 0.
\* ------------------------------------------------------------------------

ReportCounts ==
    [][\A p \in ReportPayloads :
          (/\ WasDispatched(p.url)
           /\ response'.success /\ ~response'.hasUrls /\ now' = now
           /\ Serve
           /\ handleReportResult(p.url, p.status, p.error, p.discoveredUrls,
                                 p.contentSize))
          => LET before == runState.stats
                 after == runState'.stats
                 state == domainStates'[getDomain(p.url)]
             IN  IF p.error # "" \/ p.status >= 400
                 THEN /\ after.urlsFailed = before.urlsFailed + 1
                      /\ after.urlsFetched = before.urlsFetched
                 ELSE /\ after.urlsFetched = before.urlsFetched + 1
                      /\ after.urlsFailed = before.urlsFailed
                      /\ after.bytesDownloaded = before.bytesDownloaded + p.contentSize
                      /\ state.errorCount = 0
                      /\ state.backoffUntil = 0]_vars

\* A page that was handed out has been reported as failed and then as
\* fetched: one of each is counted, with the bytes of the fetch.
ReportCountsWitness ==
    /\ RawA1 \in reported
    /\ runState.stats.urlsFailed = 1
    /\ runState.stats.urlsFetched = 1
    /\ runState.stats.bytesDownloaded = 2048
    /\ domainStates["a.test"].errorCount = 0
    /\ domainStates["a.test"].backoffUntil = 0

\* ------------------------------------------------------------------------
\* C36: urlsQueued is the number of URLs in the Frontier plus the number of
\* URLs handed out since the last reset, which is the size of the Visited
\* Index: every admission is counted once, and nothing else is.
\* ------------------------------------------------------------------------

AdmissionsCounted ==
    /\ runState.stats.urlsQueued = Len(pendingQueue) + Len(dispatched)
    /\ Cardinality(visitedUrls) = Len(dispatched)

\* A seed and a report with discovered links have admitted URLs, and one of
\* them has been handed out.
AdmissionsCountedWitness ==
    /\ RawA1 \in reported
    /\ \E i \in 1..Len(pendingQueue) : pendingQueue[i].priority < 0
    /\ Len(dispatched) >= 1
    /\ runState.stats.urlsQueued = 3

\* ------------------------------------------------------------------------
\* C37: no URL is admitted to the Frontier while the run is completed or
\* cancelled; the Frontier of a run that has completed on an empty Frontier
\* stays empty until reset, whatever seeds and reports arrive.
\* ------------------------------------------------------------------------

NoAdmissionWhenTerminal ==
    [][runState.status \in {"completed", "cancelled"}
         => \A i \in 1..Len(pendingQueue') : ~Admits(i)]_vars

\* ------------------------------------------------------------------------
\* C38: a request whose snapshot write fails is not answered with success
\* and leaves the Frontier, the Visited Index, the Domain States, the run
\* state and the errors in memory as they were before it.
\* ------------------------------------------------------------------------

FailedWriteLeavesNoTrace ==
    [][(events' # events /\ response'.error = "INTERNAL_ERROR")
         => /\ ~response'.success
            /\ memory' = memory]_vars

\* ------------------------------------------------------------------------
\* C39: reset leaves the configuration of the run as it is: the limits of
\* an earlier configure are in force for the requests after the reset.
\* ------------------------------------------------------------------------

ResetKeepsConfig ==
    [][(response'.message = "Run state reset" /\ Reset)
         => /\ crawlBehavior(runState') = crawlBehavior(runState)
            /\ rateLimiting(runState') = rateLimiting(runState)
            /\ domainScope(runState') = domainScope(runState)]_vars

\* ------------------------------------------------------------------------
\* C40: in a run that is started and never paused, cancelled or reset, with
\* no page limit and workers that keep asking for work and report every URL
\* they were handed, every URL admitted to the Frontier is eventually
\* handed out, and the run is not completed before that.
\* ------------------------------------------------------------------------

LiveUrls == {Normalised[RawA1], Normalised[RawA2], Normalised[RawB1]}

EveryAdmittedIsDispatched ==
    /\ \A u \in LiveUrls : IsQueued(pendingQueue, u) ~> WasDispatched(u)
    /\ [](runState.status = "completed" => pendingQueue = <<>>)

====
